---- MODULE Spec2Model ----
(***************************************************************************)
(* A model of pyecobee's Ecobee client (src/pyecobee/__init__.py): the     *)
(* credential fields, the persisted config, the thermostat registry, the   *)
(* request/classification routine _request and the public operations that  *)
(* call it.  The remote service is the environment: every operation that   *)
(* sends a request receives one nondeterministically chosen outcome, a     *)
(* transport failure or an HTTP response (status, body).  Spec runs the    *)
(* core operations one at a time, AllSpec adds update() and the wrappers   *)
(* of post_update, RaceSpec runs two callers on one client.                *)
(***************************************************************************)
EXTENDS Integers, Sequences, FiniteSets, TLC

\* ------------------------------------------------------------------ bounds
\* Longest thermostatList the service returns; identifiers are 1..MaxTherm.
MaxTherm == 2
\* Operations invoked in one behaviour.
MaxSteps == 3

\* Python's None, for the credential fields.
None == "None"

(***************************************************************************)
(* The values the service hands out.  The client copies these strings and  *)
(* never inspects them, so two of each kind, all distinct from one another *)
(* and from the values of an earlier session ("AT0", "RT0", "AUTH0"),      *)
(* show every way of mixing them up or of keeping a stale one.             *)
(***************************************************************************)
CODES == {"AUTH1", "AUTH2"}
PINS == {"PIN1", "PIN2"}
ACCESS_TOKENS == {"AT1", "AT2"}
REFRESH_TOKENS == {"RT1", "RT2"}
\* What comes with what in one payload.
PinOf(c) == IF c = "AUTH1" THEN "PIN1" ELSE "PIN2"
RefreshOf(a) == IF a = "AT1" THEN "RT1" ELSE "RT2"

\* ------------------------------------------------------- JSON bodies
(***************************************************************************)
(* A response body.  shape tells whether the text parses as JSON           *)
(* ("unparsable" does not), and whether the parsed value is a JSON object  *)
(* ("object") or some other JSON value such as a list, a string or null    *)
(* ("nonobject").  For an object, keys is the set of top-level keys that   *)
(* are present and the remaining fields give their values.  The value of   *)
(* "status" is itself either an object (isdict) with an optional "code",   *)
(* or a non-object.  shape "None" is Python's None, which _request hands   *)
(* back when it has no payload.                                            *)
(***************************************************************************)
NoStatus == [isdict |-> TRUE, keys |-> {}, code |-> 0]

EmptyObject ==
    [shape |-> "object", keys |-> {}, error |-> "", status |-> NoStatus,
     code |-> None, ecobeePin |-> None, access_token |-> None,
     refresh_token |-> None, thermostatList |-> << >>]

PyNone == [EmptyObject EXCEPT !.shape = "None"]
Unparsable == [EmptyObject EXCEPT !.shape = "unparsable"]
NonObject == [EmptyObject EXCEPT !.shape = "nonobject"]

\* d[k] succeeds only on a dict that has the key (KeyError / TypeError otherwise).
HasKey(d, k) == d.shape = "object" /\ k \in d.keys

\* The status.code values the service is given to answer with.
ECOBEE_STATUS_CODES == {1, 3, 14, 16}

Object(keys) == [EmptyObject EXCEPT !.keys = keys]
ErrorObject(e) == [Object({"error"}) EXCEPT !.error = e]
StatusObject(st) == [Object({"status"}) EXCEPT !.status = st]
StatusCode(c) == StatusObject([isdict |-> TRUE, keys |-> {"code"}, code |-> c])

\* Bodies of success responses to request_pin: "code" and "ecobeePin", each
\* present or missing.
PinBodies ==
    {Unparsable, NonObject, EmptyObject}
    \cup {[Object({"code"}) EXCEPT !.code = c] : c \in CODES}
    \cup {[Object({"ecobeePin"}) EXCEPT !.ecobeePin = "PIN1"]}
    \cup {[Object({"code", "ecobeePin"}) EXCEPT !.code = c, !.ecobeePin = PinOf(c)] :
            c \in CODES}

\* Bodies of success responses to the token endpoint.
TokenBodies ==
    {Unparsable, NonObject, EmptyObject}
    \cup {[Object({"access_token"}) EXCEPT !.access_token = a] : a \in ACCESS_TOKENS}
    \cup {[Object({"refresh_token"}) EXCEPT !.refresh_token = "RT1"]}
    \cup {[Object({"access_token", "refresh_token"}) EXCEPT
             !.access_token = a, !.refresh_token = RefreshOf(a)] : a \in ACCESS_TOKENS}

\* Thermostat lists: the identifiers 1..n in ascending or in descending order,
\* n up to MaxTherm.  A thermostat record is represented by its "identifier".
ThermostatLists ==
    {[i \in 1..n |-> i] : n \in 0..MaxTherm}
    \cup {[i \in 1..n |-> n + 1 - i] : n \in 2..MaxTherm}

\* Bodies of success responses to GET thermostat.
ThermostatBodies ==
    {Unparsable, NonObject, EmptyObject}
    \cup {[Object({"thermostatList"}) EXCEPT !.thermostatList = l] :
            l \in ThermostatLists}

\* Bodies of success responses to POST thermostat (the method reads none of it).
UpdateBodies == {Unparsable, StatusCode(0)}

\* ------------------------------------------------------- responses
\* What requests.request produces: a Timeout, another RequestException, or a
\* response with a status code and a body.
NoResponse == [kind |-> "none", status_code |-> 0, body |-> PyNone]
TransportErrors ==
    {[kind |-> k, status_code |-> 0, body |-> PyNone] : k \in {"Timeout", "ConnectionError"}}
Response(status_code, body) ==
    [kind |-> "response", status_code |-> status_code, body |-> body]

\* Error responses to auth-flow requests: what the "error" key holds.
AuthErrorResponses ==
    {Response(400, b) : b \in {Unparsable, NonObject, EmptyObject,
                               ErrorObject("invalid_grant"),
                               ErrorObject("invalid_client")}}
    \cup {Response(401, ErrorObject("invalid_grant"))}

\* Error responses to API requests: what the "status" key holds.
ApiErrorResponses ==
    {Response(500, b) : b \in {Unparsable, NonObject, EmptyObject,
                               StatusObject([isdict |-> FALSE, keys |-> {}, code |-> 0]),
                               StatusObject(NoStatus)}
                              \cup {StatusCode(c) : c \in ECOBEE_STATUS_CODES}}
    \cup {Response(400, b) : b \in {StatusCode(1), StatusCode(14)}}

Responses(okBodies, errors) ==
    TransportErrors \cup {Response(200, b) : b \in okBodies} \cup errors

\* The answers the service can give to each request.
PinResponses == Responses(PinBodies, AuthErrorResponses)
TokenResponses == Responses(TokenBodies, AuthErrorResponses)
ThermostatResponses == Responses(ThermostatBodies, ApiErrorResponses)
UpdateResponses == Responses(UpdateBodies, ApiErrorResponses)

\* ------------------------------------------------------- state
VARIABLES
    file_based,             \* self._file_based_config
    config_file,            \* content of the file named by self.config_filename
    config,                 \* self.config
    api_key,                \* self.api_key
    pin,                    \* self.pin
    authorization_code,     \* self.authorization_code
    access_token,           \* self.access_token
    refresh_token,          \* self.refresh_token
    include_notifications,  \* self.include_notifications
    thermostats,            \* self.thermostats
    last,                   \* the operation invoked last: its inputs, its request,
                            \* the service's answer and what the caller got
    prev,                   \* the operation invoked before it, when it returned True
                            \* or raised a token error (blank otherwise)
    steps,                  \* operations invoked so far
    locking,                \* whether the callers serialize their operations under
                            \* one exclusive lock
    pending                 \* per caller, the operation it is in the middle of

vars == <<file_based, config_file, config, api_key, pin, authorization_code,
          access_token, refresh_token, include_notifications, thermostats,
          last, prev, steps, locking, pending>>

\* A config mapping; none is a self.config of None, a missing key reads as None
\* through dict.get, and include_notifications "" is the key being absent.
NoConfig ==
    [none |-> TRUE, api_key |-> None, access_token |-> None, refresh_token |-> None,
     authorization_code |-> None, include_notifications |-> ""]

\* self.thermostats: None, or the list fetched last.
NoThermostats == [none |-> TRUE, list |-> << >>]

\* The client object, as the record the methods below read and update.
Self ==
    [file_based |-> file_based, config_file |-> config_file, config |-> config,
     api_key |-> api_key, pin |-> pin, authorization_code |-> authorization_code,
     access_token |-> access_token, refresh_token |-> refresh_token,
     include_notifications |-> include_notifications, thermostats |-> thermostats]

\* The JSON body of a request: none for the GET and auth-flow requests; for a
\* thermostat update the selection's selectionMatch, the "thermostat" properties
\* (a sequence of [section, name, value], empty when the key is left out) and the
\* "functions" list (a sequence of [type, params], empty when the key is left out).
NoBody == [none |-> TRUE, selectionMatch |-> 0, thermostat |-> << >>, functions |-> << >>]

\* sends counts the calls of requests.request made for the invocation.
NoRequest ==
    [sent |-> FALSE, sends |-> 0, method |-> "", endpoint |-> "", auth_request |-> FALSE,
     Authorization |-> None, params |-> None, body |-> NoBody]

\* ------------------------------------------------------- helpers outside src/
\* util.convert_to_bool on the stored string form of the flag.
convert_to_bool(value) == value = "True"
\* str() of a Python bool.
str(b) == IF b THEN "True" ELSE "False"
\* util.config_from_file(filename, config): saves the mapping to the file.
config_from_file_write(cfg) == cfg
\* util.config_from_file(filename): the mapping read back from the file.
config_from_file_read(f) == f

\* ------------------------------------------------------- config
_load_config(self) ==
    [self EXCEPT
       !.api_key = self.config.api_key,
       !.access_token = self.config.access_token,
       !.authorization_code = self.config.authorization_code,
       !.refresh_token = self.config.refresh_token,
       !.include_notifications =
           IF self.config.include_notifications # ""
           THEN convert_to_bool(self.config.include_notifications)
           ELSE self.include_notifications]

read_config_from_file(self) ==
    IF self.file_based
    THEN _load_config([self EXCEPT !.config = config_from_file_read(self.config_file)])
    ELSE self

\* A faulty _write_config that leaves the authorization code out of the saved
\* mapping; C3 must tell it from the real one.
_write_config_no_code(self) ==
    LET cfg == [none |-> FALSE,
                api_key |-> self.api_key,
                access_token |-> self.access_token,
                refresh_token |-> self.refresh_token,
                authorization_code |-> None,
                include_notifications |-> str(self.include_notifications)]
    IN  IF self.file_based
        THEN [self EXCEPT !.config_file = config_from_file_write(cfg)]
        ELSE [self EXCEPT !.config = cfg]

_write_config(self) ==
    LET cfg == [none |-> FALSE,
                api_key |-> self.api_key,
                access_token |-> self.access_token,
                refresh_token |-> self.refresh_token,
                authorization_code |-> self.authorization_code,
                include_notifications |-> str(self.include_notifications)]
    IN  IF self.file_based
        THEN [self EXCEPT !.config_file = config_from_file_write(cfg)]
        ELSE [self EXCEPT !.config = cfg]

\* Where the credentials are persisted: the file, or the caller's config mapping.
Persisted(self) == IF self.file_based THEN self.config_file ELSE self.config

\* ------------------------------------------------------- _request
\* Response.raise_for_status raises HTTPError for 4xx and 5xx.
raise_for_status(status_code) == status_code >= 400 /\ status_code < 600

\* response.json(): whether the body parses.
json_ok(body) == body.shape # "unparsable"

(***************************************************************************)
(* _request: builds the request, sends it and classifies the answer resp.  *)
(* The result is what the calling method sees: exc names the exception     *)
(* that leaves _request ("" when it returns), value is the returned        *)
(* payload (PyNone for None), request is the request that was sent.        *)
(* dict.get on a payload that is not a dict raises AttributeError inside   *)
(* the HTTPError handler, where no except clause covers it.                *)
(***************************************************************************)
\* Faulty headers that take the Bearer token from the config mapping loaded last
\* and not from the client's access_token; C18 must tell them from the real ones.
headers_from_config(self, auth_request) ==
    IF auth_request THEN None ELSE self.config.access_token

\* The Authorization header _request builds (its Bearer token); auth-flow requests
\* carry no headers.
headers(self, auth_request) == IF auth_request THEN None ELSE self.access_token

_request(self, method, endpoint, params, body, auth_request, resp) ==
    LET request ==
            [sent |-> TRUE, sends |-> 1, method |-> method, endpoint |-> endpoint,
             auth_request |-> auth_request,
             Authorization |-> headers(self, auth_request),
             params |-> params, body |-> body]
        Return(v) == [exc |-> "", value |-> v, request |-> request]
        Raise(e) == [exc |-> e, value |-> PyNone, request |-> request]
        json_payload == IF json_ok(resp.body) THEN resp.body ELSE EmptyObject
        isdict == json_payload.shape = "object"
    IN  IF resp.kind = "Timeout" THEN Return(PyNone)
        ELSE IF resp.kind = "ConnectionError" THEN Return(PyNone)
        ELSE IF ~raise_for_status(resp.status_code)
        THEN IF json_ok(resp.body) THEN Return(resp.body) ELSE Return(PyNone)
        ELSE IF auth_request
        THEN IF resp.status_code = 400
             THEN IF ~isdict THEN Raise("AttributeError")
                  ELSE IF "error" \in json_payload.keys
                          /\ json_payload.error = "invalid_grant"
                  THEN Raise("InvalidTokenError")
                  ELSE Return(PyNone)
             ELSE Return(PyNone)
        ELSE IF resp.status_code = 500
        THEN IF ~isdict THEN Raise("AttributeError")
             ELSE IF "status" \notin json_payload.keys THEN Return(PyNone)
             ELSE IF ~json_payload.status.isdict THEN Raise("AttributeError")
             ELSE IF "code" \notin json_payload.status.keys THEN Return(PyNone)
             ELSE IF json_payload.status.code \in {1, 16} THEN Raise("InvalidTokenError")
             ELSE IF json_payload.status.code = 14 THEN Raise("ExpiredTokenError")
             ELSE Return(PyNone)
        ELSE Return(PyNone)

\* ------------------------------------------------------- operations
(***************************************************************************)
(* Each method is an operator from the client object and the service's     *)
(* answer to the outcome of the call: the client object afterwards, what   *)
(* the caller gets (result: "True", "False", "None", or the name of the    *)
(* exception that reaches the caller) and the request that was sent.       *)
(***************************************************************************)
Outcome(self, result, request) == [self |-> self, result |-> result, request |-> request]

request_pin(self, resp) ==
    LET r == _request(self, "GET", "authorize", self.api_key, NoBody, TRUE, resp)
        response == r.value
    IN  IF r.exc # "" THEN Outcome(self, r.exc, r.request)
        ELSE IF ~HasKey(response, "code") THEN Outcome(self, "False", r.request)
        ELSE LET s1 == [self EXCEPT !.authorization_code = response.code]
             IN  IF ~HasKey(response, "ecobeePin") THEN Outcome(s1, "False", r.request)
                 ELSE Outcome([s1 EXCEPT !.pin = response.ecobeePin], "True", r.request)

request_tokens(self, resp) ==
    LET r == _request(self, "POST", "token", self.authorization_code, NoBody, TRUE, resp)
        response == r.value
    IN  IF r.exc # "" THEN Outcome(self, r.exc, r.request)
        ELSE IF ~HasKey(response, "access_token") THEN Outcome(self, "False", r.request)
        ELSE LET s1 == [self EXCEPT !.access_token = response.access_token]
             IN  IF ~HasKey(response, "refresh_token") THEN Outcome(s1, "False", r.request)
                 ELSE LET s2 == [s1 EXCEPT !.refresh_token = response.refresh_token]
                          s3 == _write_config(s2)
                      IN  Outcome([s3 EXCEPT !.pin = None], "True", r.request)

\* A faulty refresh_tokens that keeps the old refresh token; C6 must tell it from
\* the real one.
refresh_tokens_keeps_refresh(self, resp) ==
    LET r == _request(self, "POST", "token", self.refresh_token, NoBody, TRUE, resp)
        response == r.value
    IN  IF r.exc # "" THEN Outcome(self, r.exc, r.request)
        ELSE IF ~HasKey(response, "access_token") THEN Outcome(self, "False", r.request)
        ELSE IF ~HasKey(response, "refresh_token") THEN Outcome(self, "False", r.request)
        ELSE Outcome(_write_config([self EXCEPT !.access_token = response.access_token]),
                     "True", r.request)

refresh_tokens(self, resp) ==
    LET r == _request(self, "POST", "token", self.refresh_token, NoBody, TRUE, resp)
        response == r.value
    IN  IF r.exc # "" THEN Outcome(self, r.exc, r.request)
        ELSE IF ~HasKey(response, "access_token") THEN Outcome(self, "False", r.request)
        ELSE LET s1 == [self EXCEPT !.access_token = response.access_token]
             IN  IF ~HasKey(response, "refresh_token") THEN Outcome(s1, "False", r.request)
                 ELSE LET s2 == [s1 EXCEPT !.refresh_token = response.refresh_token]
                      IN  Outcome(_write_config(s2), "True", r.request)

\* A faulty get_thermostats that catches the token errors and returns False; C4
\* must tell it from the real one.
get_thermostats_swallows(self, resp) ==
    LET r == _request(self, "GET", "thermostat", str(self.include_notifications),
                      NoBody, FALSE, resp)
        response == r.value
    IN  IF r.exc \in {"InvalidTokenError", "ExpiredTokenError"}
        THEN Outcome(self, "False", r.request)
        ELSE IF r.exc # "" THEN Outcome(self, r.exc, r.request)
        ELSE IF ~HasKey(response, "thermostatList") THEN Outcome(self, "False", r.request)
        ELSE Outcome([self EXCEPT !.thermostats =
                          [none |-> FALSE, list |-> response.thermostatList]],
                     "True", r.request)

\* A faulty get_thermostats that empties the registry when it obtained no list; C9
\* must tell it from the real one.
get_thermostats_resets(self, resp) ==
    LET r == _request(self, "GET", "thermostat", str(self.include_notifications),
                      NoBody, FALSE, resp)
        response == r.value
    IN  IF r.exc # "" THEN Outcome(self, r.exc, r.request)
        ELSE IF ~HasKey(response, "thermostatList")
        THEN Outcome([self EXCEPT !.thermostats = [none |-> FALSE, list |-> << >>]],
                     "False", r.request)
        ELSE Outcome([self EXCEPT !.thermostats =
                          [none |-> FALSE, list |-> response.thermostatList]],
                     "True", r.request)

\* A faulty get_thermostats that, on an expired token, refreshes the tokens itself
\* and sends its request again; C11 must tell it from the real one.
get_thermostats_refreshes(self, resp) ==
    LET r == _request(self, "GET", "thermostat", str(self.include_notifications),
                      NoBody, FALSE, resp)
        response == r.value
        granted == [Object({"access_token", "refresh_token"}) EXCEPT
                      !.access_token = "AT1", !.refresh_token = "RT1"]
    IN  IF r.exc = "ExpiredTokenError"
        THEN Outcome(refresh_tokens(self, Response(200, granted)).self, "False",
                     [r.request EXCEPT !.sends = 3])
        ELSE IF r.exc # "" THEN Outcome(self, r.exc, r.request)
        ELSE IF ~HasKey(response, "thermostatList") THEN Outcome(self, "False", r.request)
        ELSE Outcome([self EXCEPT !.thermostats =
                          [none |-> FALSE, list |-> response.thermostatList]],
                     "True", r.request)

\* A faulty get_thermostats that adds the fetched list to the registry instead of
\* replacing the registry with it; C15 must tell it from the real one.
get_thermostats_appends(self, resp) ==
    LET r == _request(self, "GET", "thermostat", str(self.include_notifications),
                      NoBody, FALSE, resp)
        response == r.value
    IN  IF r.exc # "" THEN Outcome(self, r.exc, r.request)
        ELSE IF ~HasKey(response, "thermostatList") THEN Outcome(self, "False", r.request)
        ELSE Outcome([self EXCEPT !.thermostats =
                          [none |-> FALSE,
                           list |-> self.thermostats.list \o response.thermostatList]],
                     "True", r.request)

get_thermostats(self, resp) ==
    LET r == _request(self, "GET", "thermostat", str(self.include_notifications),
                      NoBody, FALSE, resp)
        response == r.value
    IN  IF r.exc # "" THEN Outcome(self, r.exc, r.request)
        ELSE IF ~HasKey(response, "thermostatList") THEN Outcome(self, "False", r.request)
        ELSE Outcome([self EXCEPT !.thermostats =
                          [none |-> FALSE, list |-> response.thermostatList]],
                     "True", r.request)

\* list[index] in Python: negative indices count from the end.
index_ok(list, index) == -Len(list) <= index /\ index < Len(list)
getitem(list, index) == IF index >= 0 THEN list[index + 1] ELSE list[Len(list) + index + 1]

\* A faulty post_update that swallows the token errors; C5 must tell it from the
\* real one.
post_update_swallows(self, index, props, funcs, resp) ==
    IF self.thermostats.none THEN Outcome(self, "TypeError", NoRequest)
    ELSE IF ~index_ok(self.thermostats.list, index) THEN Outcome(self, "IndexError", NoRequest)
    ELSE LET body == [none |-> FALSE,
                      selectionMatch |-> getitem(self.thermostats.list, index),
                      thermostat |-> props, functions |-> funcs]
             r == _request(self, "POST", "thermostat", None, body, FALSE, resp)
         IN  IF r.exc \in {"", "InvalidTokenError", "ExpiredTokenError"}
             THEN Outcome(self, "None", r.request)
             ELSE Outcome(self, r.exc, r.request)

\* A faulty post_update that always selects the first device of the registry; C17
\* must tell it from the real one.
post_update_first_device(self, index, props, funcs, resp) ==
    IF self.thermostats.none THEN Outcome(self, "TypeError", NoRequest)
    ELSE IF ~index_ok(self.thermostats.list, index) THEN Outcome(self, "IndexError", NoRequest)
    ELSE LET body == [none |-> FALSE,
                      selectionMatch |-> getitem(self.thermostats.list, 0),
                      thermostat |-> props, functions |-> funcs]
             r == _request(self, "POST", "thermostat", None, body, FALSE, resp)
         IN  IF r.exc # "" THEN Outcome(self, r.exc, r.request)
             ELSE Outcome(self, "None", r.request)

\* A faulty post_update that, with no registry or with an index outside it, sends
\* its update with an empty selection; C20 must tell it from the real one.
post_update_unchecked(self, index, props, funcs, resp) ==
    LET found == ~self.thermostats.none /\ index_ok(self.thermostats.list, index)
        body == [none |-> FALSE,
                 selectionMatch |-> IF found THEN getitem(self.thermostats.list, index)
                                    ELSE 0,
                 thermostat |-> props, functions |-> funcs]
        r == _request(self, "POST", "thermostat", None, body, FALSE, resp)
    IN  IF r.exc # "" THEN Outcome(self, r.exc, r.request)
        ELSE Outcome(self, "None", r.request)

\* A faulty post_update that drops the access token when the service calls it
\* invalid; C14 must tell it from the real one.
post_update_invalidates(self, index, props, funcs, resp) ==
    IF self.thermostats.none THEN Outcome(self, "TypeError", NoRequest)
    ELSE IF ~index_ok(self.thermostats.list, index) THEN Outcome(self, "IndexError", NoRequest)
    ELSE LET body == [none |-> FALSE,
                      selectionMatch |-> getitem(self.thermostats.list, index),
                      thermostat |-> props, functions |-> funcs]
             r == _request(self, "POST", "thermostat", None, body, FALSE, resp)
         IN  IF r.exc = "InvalidTokenError"
             THEN Outcome([self EXCEPT !.access_token = None], r.exc, r.request)
             ELSE IF r.exc # "" THEN Outcome(self, r.exc, r.request)
             ELSE Outcome(self, "None", r.request)

\* props and funcs are sequences; None and the empty ones add no key to the body.
post_update(self, index, props, funcs, resp) ==
    IF self.thermostats.none THEN Outcome(self, "TypeError", NoRequest)
    ELSE IF ~index_ok(self.thermostats.list, index) THEN Outcome(self, "IndexError", NoRequest)
    ELSE LET body == [none |-> FALSE,
                      selectionMatch |-> getitem(self.thermostats.list, index),
                      thermostat |-> props, functions |-> funcs]
             r == _request(self, "POST", "thermostat", None, body, FALSE, resp)
         IN  IF r.exc # "" THEN Outcome(self, r.exc, r.request)
             ELSE Outcome(self, "None", r.request)

\* ------------------------------------------------------- operation wrappers
\* update(): wrapper for get_thermostats.
update(self, resp) == get_thermostats(self, resp)

(***************************************************************************)
(* A call post_update(index, log_msg_action, <keyword>=value).  The def     *)
(* takes the keyword-only parameters props and funcs; Python raises         *)
(* TypeError for any other keyword when it binds the arguments, before the  *)
(* body of post_update runs.                                                *)
(***************************************************************************)
post_update_keyword(self, index, keyword, value, resp) ==
    IF keyword = "props" THEN post_update(self, index, value, << >>, resp)
    ELSE IF keyword = "funcs" THEN post_update(self, index, << >>, value, resp)
    ELSE Outcome(self, "TypeError", NoRequest)

\* One entry of a props dict, {section: {name: value}}, and one function call.
Prop(section, name, value) == [section |-> section, name |-> name, value |-> value]
Func(type, params) == [type |-> type, params |-> params]

\* int() of a Python int is that int (the temperatures are declared int).
int(x) == x

\* message[:n] for n >= 0.
Slice(message, n) == SubSeq(message, 1, IF Len(message) < n THEN Len(message) ELSE n)

\* The longest text send_message transmits.
MESSAGE_LIMIT == 500

set_hvac_mode(self, index, hvac_mode, resp) ==
    post_update_keyword(self, index, "props",
                        <<Prop("settings", "hvacMode", hvac_mode)>>, resp)

set_fan_min_on_time(self, index, fan_min_on_time, resp) ==
    post_update_keyword(self, index, "props",
                        <<Prop("settings", "fanMinOnTime", fan_min_on_time)>>, resp)

set_fan_mode(self, index, fan_mode, cool_temp, heat_temp, hold_type, resp) ==
    post_update_keyword(self, index, "funcs",
        <<Func("setHold", [holdType |-> hold_type,
                           coolHoldTemp |-> int(cool_temp * 10),
                           heatHoldTemp |-> int(heat_temp * 10),
                           fan |-> fan_mode])>>, resp)

set_hold_temp(self, index, cool_temp, heat_temp, hold_type, hold_hours, resp) ==
    LET params == [holdType |-> hold_type,
                   coolHoldTemp |-> int(cool_temp * 10),
                   heatHoldTemp |-> int(heat_temp * 10)]
        f == Func("setHold",
                  IF hold_type = "holdHours"
                  THEN [holdType |-> hold_type,
                        coolHoldTemp |-> params.coolHoldTemp,
                        heatHoldTemp |-> params.heatHoldTemp,
                        holdHours |-> hold_hours]
                  ELSE params)
    IN  post_update_keyword(self, index, "functions", <<f>>, resp)

set_climate_hold(self, index, climate, hold_type, resp) ==
    post_update_keyword(self, index, "funcs",
        <<Func("setHold", [holdType |-> hold_type, holdClimateRef |-> climate])>>, resp)

create_vacation(self, index, vacation_name, cool_temp, heat_temp, resp) ==
    post_update_keyword(self, index, "funcs",
        <<Func("createVacation",
               [name |-> vacation_name,
                coolHoldTemp |-> int(cool_temp * 10),
                heatHoldTemp |-> int(heat_temp * 10),
                startDate |-> None, startTime |-> None,
                endDate |-> None, endTime |-> None,
                fan_mode |-> "auto", fan_min_on_time |-> "0"])>>, resp)

delete_vacation(self, index, vacation, resp) ==
    post_update_keyword(self, index, "funcs",
        <<Func("deleteVacation", [name |-> vacation])>>, resp)

resume_program(self, index, resume_all, resp) ==
    post_update_keyword(self, index, "funcs",
        <<Func("resumeProgram", [resumeAll |-> resume_all])>>, resp)

\* A faulty send_message that transmits the whole message; C13 must tell it from
\* the real one.
send_message_whole(self, index, message, resp) ==
    post_update_keyword(self, index, "funcs",
        <<Func("sendMessage", [text |-> message])>>, resp)

send_message(self, index, message, resp) ==
    post_update_keyword(self, index, "funcs",
        <<Func("sendMessage", [text |-> Slice(message, MESSAGE_LIMIT)])>>, resp)

\* humidity is a str, which str() returns as it is.
set_humidity(self, index, humidity, resp) ==
    post_update_keyword(self, index, "props",
                        <<Prop("settings", "humidity", humidity)>>, resp)

set_mic_mode(self, index, mic_enabled, resp) ==
    post_update_keyword(self, index, "props",
                        <<Prop("audio", "microphoneEnabled", mic_enabled)>>, resp)

set_occupancy_modes(self, index, auto_away, follow_me, resp) ==
    post_update_keyword(self, index, "props",
                        <<Prop("settings", "autoAway", auto_away),
                          Prop("settings", "followMeComfort", follow_me)>>, resp)

set_dst_mode(self, index, enable_dst, resp) ==
    post_update_keyword(self, index, "props",
                        <<Prop("location", "isDaylightSaving", enable_dst)>>, resp)

\* ------------------------------------------------------- the state machine
\* The caller's config: the API key alone, or the API key with the credentials of
\* an earlier session and the notifications option.
InitialConfigs ==
    {[NoConfig EXCEPT !.none = FALSE, !.api_key = "KEY"],
     [none |-> FALSE, api_key |-> "KEY", access_token |-> "AT0", refresh_token |-> "RT0",
      authorization_code |-> "AUTH0", include_notifications |-> "True"]}

\* Ecobee.__init__ with a config mapping (loaded at once) or with a file name
\* (loaded by read_config_from_file).
__init__(filed, c) ==
    LET blank == [file_based |-> filed,
                  config_file |-> IF filed THEN c ELSE NoConfig,
                  config |-> IF filed THEN NoConfig ELSE c,
                  api_key |-> None, pin |-> None, authorization_code |-> None,
                  access_token |-> None, refresh_token |-> None,
                  include_notifications |-> FALSE, thermostats |-> NoThermostats]
    IN  IF filed THEN blank ELSE _load_config(blank)

NoPrev == [op |-> "", result |-> ""]
\* The arguments of a wrapper that the claims speak of.
NoArgs == [cool_temp |-> 0, heat_temp |-> 0, message |-> << >>]
NoCall ==
    [op |-> "", index |-> 0, args |-> NoArgs, resp |-> NoResponse, result |-> "",
     request |-> NoRequest]

\* The callers of the client, and a caller that is in no operation.
Callers == {"A", "B"}
Idle == [stage |-> "idle", op |-> "", request |-> NoRequest, resp |-> NoResponse]

Install(self) ==
    /\ file_based = self.file_based
    /\ config_file = self.config_file
    /\ config = self.config
    /\ api_key = self.api_key
    /\ pin = self.pin
    /\ authorization_code = self.authorization_code
    /\ access_token = self.access_token
    /\ refresh_token = self.refresh_token
    /\ include_notifications = self.include_notifications
    /\ thermostats = self.thermostats

Init ==
    /\ \E filed \in BOOLEAN, c \in InitialConfigs : Install(__init__(filed, c))
    /\ last = NoCall
    /\ prev = NoPrev
    /\ steps = 0
    /\ locking = TRUE
    /\ pending = [c \in Callers |-> Idle]

\* One invocation of a method, run from its call to its return: the client object
\* and the call record afterwards.
CallWith(op, index, args, resp, o) ==
    \E out \in {o} :
        /\ steps' = steps + 1
        /\ UNCHANGED <<locking, pending>>
        /\ file_based' = out.self.file_based
        /\ config_file' = out.self.config_file
        /\ config' = out.self.config
        /\ api_key' = out.self.api_key
        /\ pin' = out.self.pin
        /\ authorization_code' = out.self.authorization_code
        /\ access_token' = out.self.access_token
        /\ refresh_token' = out.self.refresh_token
        /\ include_notifications' = out.self.include_notifications
        /\ thermostats' = out.self.thermostats
        /\ last' = [op |-> op, index |-> index, args |-> args,
                    resp |-> IF out.request.sent THEN resp ELSE NoResponse,
                    result |-> out.result, request |-> out.request]
        /\ prev' = IF last.result \in {"True", "InvalidTokenError", "ExpiredTokenError"}
                   THEN [op |-> last.op, result |-> last.result]
                   ELSE NoPrev

Call(op, index, resp, o) == CallWith(op, index, NoArgs, resp, o)

CallReadConfig ==
    /\ steps < MaxSteps
    /\ Call("read_config_from_file", 0, NoResponse,
            Outcome(read_config_from_file(Self), "None", NoRequest))

CallRequestPin ==
    /\ steps < MaxSteps
    /\ \E resp \in PinResponses :
           Call("request_pin", 0, resp, request_pin(Self, resp))

CallRequestTokens ==
    /\ steps < MaxSteps
    /\ \E resp \in TokenResponses :
           Call("request_tokens", 0, resp, request_tokens(Self, resp))

CallRefreshTokens ==
    /\ steps < MaxSteps
    /\ \E resp \in TokenResponses :
           Call("refresh_tokens", 0, resp, refresh_tokens(Self, resp))

CallGetThermostats ==
    /\ steps < MaxSteps
    /\ \E resp \in ThermostatResponses :
           Call("get_thermostats", 0, resp, get_thermostats(Self, resp))

\* post_update handles the answer without regard to the index: every answer is
\* tried at index 0, and every index with a success and with an expired token.
IndexedUpdateResponses == {Response(200, StatusCode(0)), Response(500, StatusCode(14))}

CallPostUpdate ==
    /\ steps < MaxSteps
    /\ \E index \in -1..MaxTherm :
           \E resp \in IF index = 0 THEN UpdateResponses ELSE IndexedUpdateResponses :
               Call("post_update", index, resp, post_update(Self, index, << >>, << >>, resp))

Next ==
    \/ CallReadConfig
    \/ CallRequestPin
    \/ CallRequestTokens
    \/ CallRefreshTokens
    \/ CallGetThermostats
    \/ CallPostUpdate

Spec == Init /\ [][Next]_vars

\* ------------------------------------------------------- the wrappers' calls
\* The answers tried on a wrapper's POST: one of each verdict.
WrapperResponses ==
    {Response(200, StatusCode(0)), Response(500, StatusCode(14)),
     Response(500, StatusCode(1)), Response(500, StatusCode(3)),
     [kind |-> "Timeout", status_code |-> 0, body |-> PyNone]}
\* The answers tried on update(): a list, an expired token, a timeout.
UpdateFetchResponses ==
    {Response(200, [Object({"thermostatList"}) EXCEPT !.thermostatList = <<1>>]),
     Response(500, StatusCode(14)),
     [kind |-> "Timeout", status_code |-> 0, body |-> PyNone]}
\* The indices tried: the first device, and one past the longest list.
WrapperIndices == {0, MaxTherm}
\* (cool_temp, heat_temp) pairs, and the hold types.
HoldTemps == {<<78, 68>>, <<-5, -10>>}
HoldTypes == {"nextTransition", "holdHours"}
\* Messages: their characters are numbered, so that every prefix is told from every
\* other; the lengths are around MESSAGE_LIMIT.
MessageLengths ==
    {0, MESSAGE_LIMIT, MESSAGE_LIMIT + 1, MESSAGE_LIMIT + 100}
Messages == {[i \in 1..n |-> i % 26] : n \in MessageLengths}

CallUpdate ==
    /\ steps < MaxSteps
    /\ \E resp \in UpdateFetchResponses :
           Call("update", 0, resp, update(Self, resp))

CallSetHvacMode ==
    /\ steps < MaxSteps
    /\ \E index \in WrapperIndices, resp \in WrapperResponses :
           Call("set_hvac_mode", index, resp, set_hvac_mode(Self, index, "heat", resp))

CallSetFanMinOnTime ==
    /\ steps < MaxSteps
    /\ \E index \in WrapperIndices, resp \in WrapperResponses :
           Call("set_fan_min_on_time", index, resp, set_fan_min_on_time(Self, index, 20, resp))

CallSetClimateHold ==
    /\ steps < MaxSteps
    /\ \E index \in WrapperIndices, resp \in WrapperResponses :
           Call("set_climate_hold", index, resp, set_climate_hold(Self, index, "away", "nextTransition", resp))

CallDeleteVacation ==
    /\ steps < MaxSteps
    /\ \E index \in WrapperIndices, resp \in WrapperResponses :
           Call("delete_vacation", index, resp, delete_vacation(Self, index, "trip", resp))

CallResumeProgram ==
    /\ steps < MaxSteps
    /\ \E index \in WrapperIndices, resp \in WrapperResponses :
           Call("resume_program", index, resp, resume_program(Self, index, FALSE, resp))

CallSetHumidity ==
    /\ steps < MaxSteps
    /\ \E index \in WrapperIndices, resp \in WrapperResponses :
           Call("set_humidity", index, resp, set_humidity(Self, index, "40", resp))

CallSetMicMode ==
    /\ steps < MaxSteps
    /\ \E index \in WrapperIndices, resp \in WrapperResponses :
           Call("set_mic_mode", index, resp, set_mic_mode(Self, index, TRUE, resp))

CallSetOccupancyModes ==
    /\ steps < MaxSteps
    /\ \E index \in WrapperIndices, resp \in WrapperResponses :
           Call("set_occupancy_modes", index, resp, set_occupancy_modes(Self, index, TRUE, FALSE, resp))

CallSetDstMode ==
    /\ steps < MaxSteps
    /\ \E index \in WrapperIndices, resp \in WrapperResponses :
           Call("set_dst_mode", index, resp, set_dst_mode(Self, index, TRUE, resp))

CallSetFanMode ==
    /\ steps < MaxSteps
    /\ \E index \in WrapperIndices, resp \in WrapperResponses, t \in HoldTemps :
           CallWith("set_fan_mode", index,
                    [NoArgs EXCEPT !.cool_temp = t[1], !.heat_temp = t[2]], resp,
                    set_fan_mode(Self, index, "on", t[1], t[2], "nextTransition", resp))

CallSetHoldTemp ==
    /\ steps < MaxSteps
    /\ \E index \in WrapperIndices, resp \in WrapperResponses, t \in HoldTemps,
          hold_type \in HoldTypes :
           CallWith("set_hold_temp", index,
                    [NoArgs EXCEPT !.cool_temp = t[1], !.heat_temp = t[2]], resp,
                    set_hold_temp(Self, index, t[1], t[2], hold_type, "2", resp))

CallCreateVacation ==
    /\ steps < MaxSteps
    /\ \E index \in WrapperIndices, resp \in WrapperResponses, t \in HoldTemps :
           CallWith("create_vacation", index,
                    [NoArgs EXCEPT !.cool_temp = t[1], !.heat_temp = t[2]], resp,
                    create_vacation(Self, index, "trip", t[1], t[2], resp))

CallSendMessage ==
    /\ steps < MaxSteps
    /\ \E index \in WrapperIndices, resp \in WrapperResponses, message \in Messages :
           CallWith("send_message", index, [NoArgs EXCEPT !.message = message], resp,
                    send_message(Self, index, message, resp))

\* The core operations together with update() and the wrappers of post_update.
WrapperNext ==
    \/ CallUpdate
    \/ CallSetHvacMode
    \/ CallSetFanMinOnTime
    \/ CallSetClimateHold
    \/ CallDeleteVacation
    \/ CallResumeProgram
    \/ CallSetHumidity
    \/ CallSetMicMode
    \/ CallSetOccupancyModes
    \/ CallSetDstMode
    \/ CallSetFanMode
    \/ CallSetHoldTemp
    \/ CallCreateVacation
    \/ CallSendMessage

AllNext == Next \/ WrapperNext

AllSpec == Init /\ [][AllNext]_vars

\* ------------------------------------------------------- two callers
(***************************************************************************)
(* Two callers on one client.  An operation is no longer one step: the      *)
(* caller builds its request (reading the credentials it needs), hands it   *)
(* to requests.request, and handles the answer when it arrives; the other   *)
(* caller may run between these steps.  With locking, a caller enters an    *)
(* operation only when no caller is inside one.  Handling the answer is    *)
(* kept as one step.                                                        *)
(***************************************************************************)
RaceOps == {"refresh_tokens", "get_thermostats"}

\* The operation op of the client self, answered with resp.
Invoke(op, self, resp) ==
    IF op = "refresh_tokens" THEN refresh_tokens(self, resp) ELSE get_thermostats(self, resp)

\* The answers tried here.
RaceResponses(op) ==
    IF op = "refresh_tokens"
    THEN {Response(200, [Object({"access_token", "refresh_token"}) EXCEPT
                            !.access_token = a, !.refresh_token = RefreshOf(a)]) :
            a \in ACCESS_TOKENS}
         \cup {Response(400, ErrorObject("invalid_grant"))}
    ELSE {Response(200, [Object({"thermostatList"}) EXCEPT !.thermostatList = <<1>>]),
          Response(500, StatusCode(14))}

\* The exclusive lock the callers are asked to hold around every operation.
CanEnter(c) == locking => \A d \in Callers : pending[d].stage = "idle"

RaceInit ==
    /\ \E filed \in BOOLEAN, c \in InitialConfigs : Install(__init__(filed, c))
    /\ last = NoCall
    /\ prev = NoPrev
    /\ steps = 0
    /\ locking \in BOOLEAN
    /\ pending = [c \in Callers |-> Idle]

Client ==
    <<file_based, config_file, config, api_key, pin, authorization_code,
      access_token, refresh_token, include_notifications, thermostats>>

\* A caller enters an operation and builds its request: URL, headers, parameters.
Begin ==
    /\ steps < MaxSteps
    /\ \E c \in Callers, op \in RaceOps :
           /\ pending[c].stage = "idle"
           /\ CanEnter(c)
           /\ pending' = [pending EXCEPT ![c] =
                             [stage |-> "built", op |-> op,
                              request |-> Invoke(op, Self, NoResponse).request,
                              resp |-> NoResponse]]
           /\ steps' = steps + 1
           /\ UNCHANGED <<Client, last, prev, locking>>

\* requests.request puts the request the caller built on the wire; last is that
\* request, with no result yet.
Transmit ==
    \E c \in Callers :
        /\ pending[c].stage = "built"
        /\ pending' = [pending EXCEPT ![c].stage = "sent"]
        /\ last' = [op |-> pending[c].op, index |-> 0, args |-> NoArgs,
                    resp |-> NoResponse, result |-> "", request |-> pending[c].request]
        /\ prev' = IF last.result \in {"True", "InvalidTokenError", "ExpiredTokenError"}
                   THEN [op |-> last.op, result |-> last.result]
                   ELSE NoPrev
        /\ UNCHANGED <<Client, steps, locking>>

\* The answer arrives and the operation handles it and returns.
Complete ==
    \E c \in Callers :
        /\ pending[c].stage = "sent"
        /\ \E resp \in RaceResponses(pending[c].op) :
               \E out \in {Invoke(pending[c].op, Self, resp)} :
                   /\ file_based' = out.self.file_based
                   /\ config_file' = out.self.config_file
                   /\ config' = out.self.config
                   /\ api_key' = out.self.api_key
                   /\ pin' = out.self.pin
                   /\ authorization_code' = out.self.authorization_code
                   /\ access_token' = out.self.access_token
                   /\ refresh_token' = out.self.refresh_token
                   /\ include_notifications' = out.self.include_notifications
                   /\ thermostats' = out.self.thermostats
                   /\ last' = [op |-> pending[c].op, index |-> 0, args |-> NoArgs,
                               resp |-> resp, result |-> out.result,
                               request |-> pending[c].request]
        /\ prev' = IF last.result \in {"True", "InvalidTokenError", "ExpiredTokenError"}
                   THEN [op |-> last.op, result |-> last.result]
                   ELSE NoPrev
        /\ pending' = [pending EXCEPT ![c] = Idle]
        /\ UNCHANGED <<steps, locking>>

RaceNext == Begin \/ Transmit \/ Complete

RaceSpec == RaceInit /\ [][RaceNext]_vars

\* ------------------------------------------------------- vocabulary of the claims
\* The last operation sent a request / received an HTTP response to it.
Sent == last.request.sent
Received == Sent /\ last.resp.kind = "response"
AuthFlow == last.request.auth_request
SuccessStatus(resp) == resp.status_code \in 200..299
NonSuccess == Received /\ ~SuccessStatus(last.resp)

\* The payload's "error" field and its status.code, when it has them.
ErrorIs(body, e) == HasKey(body, "error") /\ body.error = e
CodeIn(body, codes) ==
    /\ HasKey(body, "status")
    /\ body.status.isdict
    /\ "code" \in body.status.keys
    /\ body.status.code \in codes

(***************************************************************************)
(* The classification the specification prescribes (its section 4.2): the  *)
(* verdict for an answer, by whether the request was an auth-flow request. *)
(* A body that does not parse, or that lacks the field looked at, has no   *)
(* such field.                                                             *)
(***************************************************************************)
Verdict(isAuthFlow, resp) ==
    IF resp.kind # "response" THEN "Transport"
    ELSE IF SuccessStatus(resp)
    THEN IF resp.body.shape = "unparsable" THEN "Transport" ELSE "Success"
    ELSE IF isAuthFlow
    THEN IF resp.status_code = 400 /\ ErrorIs(resp.body, "invalid_grant")
         THEN "InvalidToken" ELSE "Failure"
    ELSE IF resp.status_code = 500 /\ CodeIn(resp.body, {1, 16}) THEN "InvalidToken"
    ELSE IF resp.status_code = 500 /\ CodeIn(resp.body, {14}) THEN "ExpiredToken"
    ELSE "Failure"

\* What the caller gets when nothing is raised and nothing was obtained.
Negative(op) == IF op = "post_update" THEN "None" ELSE "False"

Credentials ==
    <<api_key, authorization_code, access_token, refresh_token, pin, include_notifications>>

\* ------------------------------------------------------- C1
\* C1: every non-success response to an auth-flow request (request_pin,
\* request_tokens, refresh_tokens) with status 400 and error "invalid_grant" raises
\* InvalidTokenError to the caller; every other non-success response is a Failure:
\* nothing is raised and the call returns False.
C1_AuthFlowClassification ==
    (NonSuccess /\ AuthFlow) =>
        IF last.resp.status_code = 400 /\ ErrorIs(last.resp.body, "invalid_grant")
        THEN last.result = "InvalidTokenError"
        ELSE last.result = "False"

\* ------------------------------------------------------- C2
\* C2: every non-success response to an API (non-auth-flow) request with status 500
\* yields InvalidToken for status.code 1 or 16, ExpiredToken for status.code 14 and
\* Failure for any other or absent code; any other non-success status yields
\* Failure whatever the payload's status.code.
C2_ApiClassification ==
    (NonSuccess /\ ~AuthFlow) =>
        IF last.resp.status_code = 500 /\ CodeIn(last.resp.body, {1, 16})
        THEN last.result = "InvalidTokenError"
        ELSE IF last.resp.status_code = 500 /\ CodeIn(last.resp.body, {14})
        THEN last.result = "ExpiredTokenError"
        ELSE last.result = Negative(last.op)

\* ------------------------------------------------------- C10
\* C10: whatever the body of a received HTTP response, the operation ends in
\* Success, InvalidToken, ExpiredToken or an absorbed Failure, never in an
\* unhandled fault.
C10_NoUnhandledFault ==
    Received =>
        last.result \in {"True", "False", "None", "InvalidTokenError", "ExpiredTokenError"}

\* ------------------------------------------------------- C3
PinSuccess(resp) ==
    /\ resp.kind = "response" /\ SuccessStatus(resp)
    /\ HasKey(resp.body, "code") /\ HasKey(resp.body, "ecobeePin")
TokenSuccess(resp) ==
    /\ resp.kind = "response" /\ SuccessStatus(resp)
    /\ HasKey(resp.body, "access_token") /\ HasKey(resp.body, "refresh_token")

\* C3: request_pin() answered with the success payload {code: C, ecobeePin: P} and
\* then request_tokens() answered with {access_token: A, refresh_token: R} both
\* return True and leave the persisted credentials with access_token A,
\* refresh_token R and authorization_code C, and the in-memory pin cleared.
C3_PinThenTokens ==
    [][(/\ last.op = "request_pin" /\ PinSuccess(last.resp)
        /\ last'.op = "request_tokens" /\ TokenSuccess(last'.resp))
       => /\ last.result = "True"
          /\ last'.result = "True"
          /\ ~Persisted(Self)'.none
          /\ Persisted(Self)'.access_token = last'.resp.body.access_token
          /\ Persisted(Self)'.refresh_token = last'.resp.body.refresh_token
          /\ Persisted(Self)'.authorization_code = last.resp.body.code
          /\ pin' = None]_vars

\* request_tokens() has just succeeded right after a successful request_pin().
C3_Witness ==
    /\ prev = [op |-> "request_pin", result |-> "True"]
    /\ last.op = "request_tokens" /\ last.result = "True"
    /\ Persisted(Self).authorization_code \in CODES
    /\ Persisted(Self).access_token \in ACCESS_TOKENS
    /\ pin = None

\* ------------------------------------------------------- C4
GoodFetch(resp) ==
    /\ resp.kind = "response" /\ SuccessStatus(resp)
    /\ HasKey(resp.body, "thermostatList")

\* The error payloads of C10: the ones _request looks a field up in although they
\* (or their "status") are not JSON objects.
FaultyPayload(isAuthFlow, resp) ==
    /\ resp.kind = "response" /\ ~SuccessStatus(resp)
    /\ IF isAuthFlow
       THEN resp.status_code = 400 /\ resp.body.shape = "nonobject"
       ELSE /\ resp.status_code = 500
            /\ \/ resp.body.shape = "nonobject"
               \/ HasKey(resp.body, "status") /\ ~resp.body.status.isdict

Authenticated(op) == op \in {"get_thermostats", "post_update"}
TokenErrors == {"InvalidTokenError", "ExpiredTokenError"}

C7_FailedTokenCallKeepsState ==
    [][(last'.op \in {"request_tokens", "refresh_tokens"} /\ ~TokenSuccess(last'.resp))
       => /\ last'.result # "True"
          /\ Credentials' = Credentials
          /\ Persisted(Self)' = Persisted(Self)]_vars

\* ------------------------------------------------------- C8
\* C8: request_pin() answered with a success status and a payload lacking code or
\* ecobeePin returns False and leaves authorization_code and pin unchanged.
C8_MalformedPinKeepsState ==
    [][(/\ last'.op = "request_pin"
        /\ last'.resp.kind = "response" /\ SuccessStatus(last'.resp)
        /\ ~PinSuccess(last'.resp))
       => /\ last'.result = "False"
          /\ authorization_code' = authorization_code
          /\ pin' = pin]_vars

\* ------------------------------------------------------- C9
TransportFailure(resp) == resp.kind \in {"Timeout", "ConnectionError"}

\* C9: a transport failure (timeout or connectivity error) of the request of any
\* operation is not raised: the operation returns False (None for post_update) and
\* credentials, persisted config and registry are unchanged.
C9_TransportAbsorbed ==
    [][(last'.request.sent /\ TransportFailure(last'.resp))
       => /\ last'.result = Negative(last'.op)
          /\ Credentials' = Credentials
          /\ config' = config /\ config_file' = config_file
          /\ thermostats' = thermostats]_vars

\* get_thermostats() timed out while a fetched registry was in place.
C9_Witness ==
    /\ last.op = "get_thermostats" /\ last.resp.kind = "Timeout"
    /\ last.result = "False"
    /\ ~thermostats.none /\ Len(thermostats.list) > 0

\* ------------------------------------------------------- C11
TokenOps == {"request_tokens", "refresh_tokens"}
\* The endpoint an operation's request goes to.
EndpointOf(op) ==
    IF op = "request_pin" THEN "authorize" ELSE IF op \in TokenOps THEN "token" ELSE "thermostat"

\* C11: every invocation of a public operation (request_pin, request_tokens,
\* refresh_tokens, get_thermostats, post_update and its wrappers) sends at most one
\* HTTP request, to the operation's own endpoint, whatever the verdict; no operation
\* but request_tokens and refresh_tokens (and the config load) changes the tokens,
\* so that no refresh is made internally.
C11_AtMostOneRequest ==
    [][/\ last'.request.sends <= 1
       /\ last'.request.sent <=> (last'.request.sends = 1)
       /\ last'.request.sent => last'.request.endpoint = EndpointOf(last'.op)
       /\ (last'.op \notin TokenOps \cup {"read_config_from_file"})
          => /\ access_token' = access_token
             /\ refresh_token' = refresh_token
             /\ config' = config /\ config_file' = config_file]_vars

\* A wrapper's only request met an expired token, and the tokens are the ones of the
\* config still.
C11_Witness ==
    /\ last.op = "set_hvac_mode" /\ last.result = "ExpiredTokenError"
    /\ last.request.sends = 1 /\ last.request.endpoint = "thermostat"
    /\ access_token = "AT0" /\ refresh_token = "RT0"

\* ------------------------------------------------------- C12
\* The last call's index is a valid index into a fetched registry.
ValidIndex == ~thermostats.none /\ index_ok(thermostats.list, last.index)

\* C12: for every valid index into a fetched registry and all integer cool_temp and
\* heat_temp, set_hold_temp(index, cool_temp, heat_temp) transmits one authenticated
\* POST whose setHold function carries coolHoldTemp = 10 * cool_temp and
\* heatHoldTemp = 10 * heat_temp.
C12_HoldTempScaled ==
    (last.op = "set_hold_temp" /\ ValidIndex) =>
        /\ last.request.sent /\ last.request.sends = 1
        /\ last.request.method = "POST" /\ ~last.request.auth_request
        /\ Len(last.request.body.functions) = 1
        /\ last.request.body.functions[1].type = "setHold"
        /\ last.request.body.functions[1].params.coolHoldTemp = 10 * last.args.cool_temp
        /\ last.request.body.functions[1].params.heatHoldTemp = 10 * last.args.heat_temp

\* ------------------------------------------------------- C13
\* C13: send_message with a valid index transmits one sendMessage function whose
\* text is the first 500 characters of the message: a message of at most 500
\* characters is sent unchanged, a longer one is cut to its prefix of length 500.
C13_MessageTruncated ==
    (last.op = "send_message" /\ ValidIndex) =>
        /\ last.request.sent
        /\ Len(last.request.body.functions) = 1
        /\ last.request.body.functions[1].type = "sendMessage"
        /\ LET text == last.request.body.functions[1].params.text
               message == last.args.message
           IN  /\ Len(message) <= 500 => text = message
               /\ Len(message) > 500 => Len(text) = 500
               /\ \A i \in 1..Len(text) : i <= Len(message) /\ text[i] = message[i]

\* A message of 600 characters went out as a text of 500.
C13_Witness ==
    /\ last.op = "send_message" /\ last.request.sent
    /\ Len(last.args.message) = 600
    /\ Len(last.request.body.functions[1].params.text) = 500

\* ------------------------------------------------------- C14
CredentialOps == {"request_pin", "request_tokens", "refresh_tokens", "read_config_from_file"}

\* C14: the credentials (api_key, authorization_code, access_token, refresh_token,
\* pin, include_notifications) and the persisted config are changed by request_pin,
\* request_tokens, refresh_tokens and the config load only: get_thermostats,
\* post_update and every wrapper leave them as they are, whatever the verdict; and
\* every successful request_tokens or refresh_tokens leaves the persisted config
\* holding the credentials as they are in memory.
C14_CredentialFrame ==
    [][/\ (last'.op \notin CredentialOps)
          => /\ Credentials' = Credentials
             /\ config' = config /\ config_file' = config_file
       /\ (last'.op \in TokenOps /\ last'.result = "True")
          => Persisted(Self)' =
               [none |-> FALSE, api_key |-> api_key', access_token |-> access_token',
                refresh_token |-> refresh_token',
                authorization_code |-> authorization_code',
                include_notifications |-> str(include_notifications')]]_vars

\* post_update met an InvalidToken verdict and the client still holds its tokens.
C14_Witness ==
    /\ last.op = "post_update" /\ last.result = "InvalidTokenError"
    /\ access_token # None /\ refresh_token # None

\* ------------------------------------------------------- C15
\* C15: two get_thermostats() calls in a row that are answered with the same
\* success payload both return True, and the registry equals the payload's
\* thermostatList after the first and after the second.
C15_FetchTwice ==
    [][(/\ last.op = "get_thermostats" /\ GoodFetch(last.resp)
        /\ last'.op = "get_thermostats" /\ last'.resp = last.resp)
       => /\ last.result = "True"
          /\ last'.result = "True"
          /\ thermostats = [none |-> FALSE, list |-> last.resp.body.thermostatList]
          /\ thermostats' = thermostats]_vars

\* A second get_thermostats() in a row has succeeded, and the registry is the list
\* of its payload.
C15_Witness ==
    /\ prev = [op |-> "get_thermostats", result |-> "True"]
    /\ last.op = "get_thermostats" /\ last.result = "True"
    /\ Len(thermostats.list) > 1
    /\ thermostats.list = last.resp.body.thermostatList

\* ------------------------------------------------------- C16
\* C16: every authenticated request carries as its Bearer token the access_token
\* that the most recent successful request_tokens / refresh_tokens delivered (or
\* that the config load gave, when none has succeeded): the request carries the
\* access_token the client holds when the operation is called, and that token
\* changes in a successful request_tokens / refresh_tokens and in a config load
\* only.  Auth-flow requests carry no Authorization header.
C16_BearerIsIssuedToken ==
    [][/\ last'.request.sent
          => last'.request.Authorization =
               IF last'.request.auth_request THEN None ELSE access_token
       /\ access_token' # access_token
          => \/ last'.op \in TokenOps /\ last'.result = "True"
             \/ last'.op = "read_config_from_file"]_vars

\* ------------------------------------------------------- C17
\* C17: a post_update(index) that sends its request addresses the identifier at
\* position index of the registry as it is when the call is made, and the registry
\* is the thermostatList of the most recent successful get_thermostats(): nothing
\* else changes it, and nothing checks that the index was obtained for that list.
C17_PositionalSelection ==
    [][/\ (last'.op = "post_update" /\ last'.request.sent)
          => /\ ~thermostats.none /\ index_ok(thermostats.list, last'.index)
             /\ last'.request.body.selectionMatch =
                  getitem(thermostats.list, last'.index)
       /\ thermostats' # thermostats
          => /\ last'.op = "get_thermostats" /\ last'.result = "True"
             /\ thermostats' = [none |-> FALSE, list |-> last'.resp.body.thermostatList]]_vars

\* post_update(0) went to the device that a fetch put first, in a list that is not
\* in ascending order.
C17_Witness ==
    /\ last.op = "post_update" /\ last.request.sent /\ last.index = 0
    /\ Len(thermostats.list) > 1
    /\ thermostats.list[1] > thermostats.list[2]
    /\ last.request.body.selectionMatch = thermostats.list[1]

\* ------------------------------------------------------- C19
\* The credentials were loaded from the config (a file-backed client holds no API
\* key until read_config_from_file).
Loaded == api_key # None

\* C19: for a client whose credentials were loaded from config, after any sequence
\* of completed operations the persisted access_token and refresh_token equal the
\* ones in memory.
C19_PersistedTokensMatch ==
    Loaded => /\ Persisted(Self).access_token = access_token
              /\ Persisted(Self).refresh_token = refresh_token

\* ------------------------------------------------------- C20
\* post_update and its wrappers, and the two ways of fetching the registry.
UpdateOps ==
    {"post_update", "set_hvac_mode", "set_fan_min_on_time", "set_fan_mode",
     "set_hold_temp", "set_climate_hold", "create_vacation", "delete_vacation",
     "resume_program", "send_message", "set_humidity", "set_mic_mode",
     "set_occupancy_modes", "set_dst_mode"}
FetchOps == {"get_thermostats", "update"}

\* C20: post_update and its wrappers send a thermostat-update POST only when a
\* get_thermostats() has succeeded before (the registry, None at construction, is
\* set by a successful fetch only) and the index is inside the registry; otherwise
\* the call fails (TypeError, IndexError) with no request sent and with credentials,
\* persisted config and registry unchanged.
C20_NoUpdateBeforeFetch ==
    [][/\ (thermostats.none /\ ~thermostats'.none)
          => last'.op \in FetchOps /\ last'.result = "True"
       /\ (last'.op \in UpdateOps)
          => IF ~thermostats.none /\ index_ok(thermostats.list, last'.index)
             THEN last'.request.sent \/ last'.op = "set_hold_temp"
             ELSE /\ ~last'.request.sent
                  /\ last'.result \in {"TypeError", "IndexError"}
                  /\ Credentials' = Credentials
                  /\ config' = config /\ config_file' = config_file
                  /\ thermostats' = thermostats]_vars

\* A wrapper was called before any fetch had succeeded, and it failed with nothing
\* sent.
C20_Witness ==
    /\ last.op = "send_message" /\ thermostats.none
    /\ last.result = "TypeError" /\ ~last.request.sent

\* ------------------------------------------------------- C18
\* The request on the wire is an authenticated one whose Bearer token is no longer
\* the client's access_token.
StaleSend ==
    /\ last.request.sent /\ ~last.request.auth_request
    /\ last.result = ""
    /\ last.request.Authorization # access_token

\* C18: when every operation is run under one exclusive lock, no authenticated
\* request goes on the wire with a token other than the client's current
\* access_token; without the lock an interleaving reaches such a request, sent
\* after a concurrent refresh_tokens() has replaced the token (the state
\* C18_Witness).
C18_LockedSendsCurrentToken == locking => ~StaleSend

\* Without the lock: a request built before a refresh_tokens() of the other caller
\* succeeded goes out after it, with the token that was replaced.
C18_Witness ==
    /\ ~locking /\ StaleSend
    /\ last.op = "get_thermostats"
    /\ prev = [op |-> "refresh_tokens", result |-> "True"]
    /\ access_token \in ACCESS_TOKENS

====
